---------------------------- MODULE Spec2Model ----------------------------
(***************************************************************************)
(* A model of SnapAI's three programs:                                     *)
(*   - the supervisor (server/main.py, ProcessManager and main),           *)
(*   - the overlay's reconnecting WebSocketClient (server/overlay.py),     *)
(*   - the server's WebSocketHandler (server/server.py).                   *)
(* Each program has its own specification (SupSpec, ClientSpec,            *)
(* ServerSpec); the variables of the other two programs stay as they are.  *)
(***************************************************************************)
EXTENDS Integers, Sequences, FiniteSets, TLC

(***************************************************************************)
(* Program constants of main.py.                                           *)
(***************************************************************************)
STARTUP_WAIT == 3

MAX_RESTART_ATTEMPTS == 3

RESTART_DELAY == 2

(***************************************************************************)
(* Bounds of the model.                                                    *)
(***************************************************************************)
\* The most descendant processes one managed process spawns.
NumKids == 2

\* The most connection attempts the client makes.
MaxAttempts == 3

\* The most send_message calls.
MaxSends == 2

\* The most messages the peers send to the server, over all connections.
MaxMsgs == 2

Names == {"server", "overlay"}

Other(n) == IF n = "server" THEN "overlay" ELSE "server"

VARIABLES
    \* ---- supervisor (main.py) ----
    spc,            \* the position of the supervisor's main flow
    handle,         \* server_proc / overlay_proc: the pid of the Popen handle, 0 for None
    running,        \* ProcessManager.running
    restart_counts, \* ProcessManager.restart_counts
    rname,          \* proc_name of the _try_restart_process call in progress
    procs,          \* the OS processes spawned so far, by pid
    lastSleep,      \* the duration of the most recent time.sleep that returned
    relaunchLog,    \* per name, the sleep that preceded each relaunch (history)
    gaveUp,         \* per name, _try_restart_process found the budget exhausted (history)
    restartFailed,  \* per name, a relaunch raised in _create_process (history)
    signalled,      \* handle_signal has run (history)
    enteredMonitor, \* start_processes returned and the while loop was entered (history)
    exitCode,       \* the exit status of the supervisor, -1 while it runs
    scriptMissing,  \* per name, _create_process found no script at the path (history)
    popen,          \* the pid of the Popen that _create_process returned and no handle holds yet, 0 for none
    teardown,       \* per name, how kill_proc_tree went in the latest cleanup (history)
    \* ---- WebSocketClient (overlay.py) ----
    cpc,            \* the position of the client's thread (_run / listen)
    loop,           \* self.loop is set
    ws,             \* self.ws: the id of the connection object, 0 for None
    connected,      \* self.connected
    should_reconnect, \* self.should_reconnect
    reconnect_delay,  \* self.reconnect_delay
    attempts,       \* connection attempts started so far; the id of the newest connection
    openConn,       \* the id of the connection that is open on the wire, 0 for none
    closeTask,      \* the connection a scheduled ws.close() is bound to, 0 for none
    sendTasks,      \* the ws.send coroutines scheduled on the loop: [id, conn]
    issued,         \* per send_message call: was a connection active, ws, attempts (history)
    transmitted,    \* the envelopes put on the wire: [id, on] (history)
    fails,          \* failures handled since the last successful connect (history)
    cb,             \* the text last handed to the callback
    message,        \* the kind of the message ws.recv() returned last, "none" outside the inner loop
    \* ---- WebSocketHandler (server.py) ----
    api_key,        \* AIService.api_key is set
    st,             \* per connection: "none", "open", "closed" (handler still running), "done"
    clients,        \* WebSocketHandler.clients, the registry
    recvd,          \* per connection, the messages that arrived on it, in order
    handled,        \* per connection, how many of them _process_message has taken
    out,            \* per connection, the envelopes sent on it, in order
    busy,           \* the connection whose handler is inside the inference call, or "none"
    raised,         \* per connection, its handler ended because a send raised (history)
    peerClosed,     \* per connection, the peer closed it (history)
    inferred        \* per connection, what analyze_text / analyze_screenshot returned: [req, answer] (history)

supVars == <<spc, handle, running, restart_counts, rname, procs, lastSleep,
             relaunchLog, gaveUp, restartFailed, signalled, enteredMonitor,
             exitCode, scriptMissing, popen, teardown>>

cliVars == <<cpc, loop, ws, connected, should_reconnect, reconnect_delay,
             attempts, openConn, closeTask, sendTasks, issued, transmitted,
             fails, cb, message>>

srvVars == <<api_key, st, clients, recvd, handled, out, busy, raised, peerClosed,
             inferred>>

vars == <<supVars, cliVars, srvVars>>

\* what each program leaves alone: the variables of the other programs
notSup == <<cliVars, srvVars>>

notCli == <<supVars, srvVars>>

notSrv == <<supVars, cliVars>>

(***************************************************************************)
(* OS processes.  A process is "running", "exited" (by itself) or          *)
(* "terminated" (by the supervisor's terminate or kill); kids counts its   *)
(* live descendants.                                                       *)
(***************************************************************************)
Alive(pid) == pid # 0 /\ procs[pid].status = "running"

Kids(pid) == IF pid = 0 THEN 0 ELSE procs[pid].kids

\* subprocess.Popen.poll() is not None
Polled(pid) == procs[pid].status # "running"

\* _create_process past the existence check: Popen spawns a process for name n
Spawn(ps, n) == Append(ps, [name |-> n, status |-> "running", kids |-> 0])

\* a _create_process that tests the path only after Popen has spawned
create_processLateCheck(ps, n, exists) == Spawn(ps, n)

\* _create_process: raises FileNotFoundError before Popen when the script is missing
create_process(ps, n, exists) == IF exists THEN Spawn(ps, n) ELSE ps

(***************************************************************************)
(* cleanup.kill_proc_tree on the handle pid.  termOk: the parent exits     *)
(* within the 3 s wait after terminate(); kidsLeft: how many children      *)
(* survive their terminate().  A parent that is gone raises NoSuchProcess. *)
(***************************************************************************)
kill_proc_tree(ps, pid, termOk, kidsLeft) ==
    IF pid = 0 \/ ps[pid].status # "running"
    THEN ps
    ELSE IF termOk
         THEN [ps EXCEPT ![pid].status = "terminated", ![pid].kids = kidsLeft]
         ELSE [ps EXCEPT ![pid].status = "terminated", ![pid].kids = 0]

\* a cleanup whose second test is an elif: the overlay is cleaned up only without a server
cleanupElif(ps, termS, leftS, termO, leftO) ==
    IF handle["server"] # 0
    THEN kill_proc_tree(ps, handle["server"], termS, leftS)
    ELSE kill_proc_tree(ps, handle["overlay"], termO, leftO)

\* cleanup: the server's tree, then the overlay's
cleanup(ps, termS, leftS, termO, leftO) ==
    kill_proc_tree(kill_proc_tree(ps, handle["server"], termS, leftS),
                   handle["overlay"], termO, leftO)

\* how kill_proc_tree on the handle pid goes.  killOk: after the forced kill the
\* parent exits within the 2 s wait; otherwise the wait raises TimeoutExpired,
\* which the last handler logs before it sends the kill once more
Outcome(ps, pid, termOk, killOk) ==
    IF pid = 0 THEN "skipped"
    ELSE IF ps[pid].status # "running" THEN "gone"
    ELSE IF termOk THEN "terminated"
    ELSE IF killOk THEN "killed"
    ELSE "kill_timeout"

\* a cleanup that gives up when the teardown of the server ends in an error
CleanupToShortCircuit(next, code) ==
    \E termS \in BOOLEAN, termO \in BOOLEAN, killS \in BOOLEAN, killO \in BOOLEAN,
       leftS \in 0..Kids(handle["server"]), leftO \in 0..Kids(handle["overlay"]) :
        LET outS == Outcome(procs, handle["server"], termS, killS)
            ps == kill_proc_tree(procs, handle["server"], termS, leftS)
        IN  /\ IF outS = "kill_timeout"
               THEN /\ procs' = ps
                    /\ teardown' = [server |-> outS, overlay |-> "skipped"]
               ELSE /\ procs' = cleanup(procs, termS, leftS, termO, leftO)
                    /\ teardown' = [server |-> outS,
                                    overlay |-> Outcome(ps, handle["overlay"], termO, killO)]
            /\ spc' = next
            /\ exitCode' = code

\* cleanup(), then the move to the next position with an exit status
CleanupTo(next, code) ==
    \E termS \in BOOLEAN, termO \in BOOLEAN, killS \in BOOLEAN, killO \in BOOLEAN,
       leftS \in 0..Kids(handle["server"]), leftO \in 0..Kids(handle["overlay"]) :
        LET ps == kill_proc_tree(procs, handle["server"], termS, leftS)
        IN  /\ procs' = cleanup(procs, termS, leftS, termO, leftO)
            /\ teardown' = [server |-> Outcome(procs, handle["server"], termS, killS),
                            overlay |-> Outcome(ps, handle["overlay"], termO, killO)]
            /\ spc' = next
            /\ exitCode' = code

SupInit ==
    /\ spc = "start"
    /\ handle = [n \in Names |-> 0]
    /\ running = TRUE
    /\ restart_counts = [n \in Names |-> 0]
    /\ rname = "none"
    /\ procs = <<>>
    /\ lastSleep = 0
    /\ relaunchLog = [n \in Names |-> <<>>]
    /\ gaveUp = [n \in Names |-> FALSE]
    /\ restartFailed = [n \in Names |-> FALSE]
    /\ signalled = FALSE
    /\ enteredMonitor = FALSE
    /\ exitCode = -1
    /\ scriptMissing = [n \in Names |-> FALSE]
    /\ popen = 0
    /\ teardown = [n \in Names |-> "unset"]

(***************************************************************************)
(* start_processes                                                         *)
(***************************************************************************)
\* the two port checks and the launch of server.py
StartServer ==
    /\ UNCHANGED notSup
    /\ UNCHANGED teardown
    /\ spc = "start"
    /\ \E free8080 \in BOOLEAN, free8765 \in BOOLEAN, exists \in BOOLEAN :
         IF free8080 /\ free8765
         THEN /\ procs' = create_process(procs, "server", exists)
              /\ scriptMissing' = [scriptMissing EXCEPT !["server"] = ~exists]
              /\ IF exists
                 THEN /\ popen' = Len(procs) + 1
                      /\ spc' = "server_store"
                 ELSE /\ spc' = "start_failed"
                      /\ UNCHANGED popen
         ELSE /\ spc' = "start_failed"
              /\ UNCHANGED <<procs, popen, scriptMissing>>
    /\ UNCHANGED handle
    /\ UNCHANGED <<running, restart_counts, rname, lastSleep, relaunchLog, gaveUp,
                   restartFailed, signalled, enteredMonitor, exitCode>>

\* the warm-up wait, the poll of the server, the launch of overlay.py
StartOverlay ==
    /\ UNCHANGED notSup
    /\ UNCHANGED teardown
    /\ spc = "server_warmup"
    /\ lastSleep' = STARTUP_WAIT
    /\ \E exists \in BOOLEAN :
         IF ~Polled(handle["server"])
         THEN /\ procs' = create_process(procs, "overlay", exists)
              /\ scriptMissing' = [scriptMissing EXCEPT !["overlay"] = ~exists]
              /\ IF exists
                 THEN /\ popen' = Len(procs) + 1
                      /\ spc' = "overlay_store"
                 ELSE /\ spc' = "start_failed"
                      /\ UNCHANGED popen
         ELSE /\ spc' = "start_failed"
              /\ UNCHANGED <<procs, popen, scriptMissing>>
    /\ UNCHANGED handle
    /\ UNCHANGED <<running, restart_counts, rname, relaunchLog, gaveUp,
                   restartFailed, signalled, enteredMonitor, exitCode>>

\* self.server_proc = ... / self.overlay_proc = ...: the Popen that
\* _create_process returned is stored; a signal can be handled before this
StoreHandle ==
    /\ UNCHANGED notSup
    /\ spc \in {"server_store", "overlay_store", "restart_store"}
    /\ handle' = [handle EXCEPT ![procs[popen].name] = popen]
    /\ popen' = 0
    /\ spc' = CASE spc = "server_store" -> "server_warmup"
                [] spc = "overlay_store" -> "overlay_check"
                [] OTHER -> IF rname = "server" THEN "restart_warmup" ELSE "loop_sleep"
    /\ UNCHANGED <<running, restart_counts, rname, procs, lastSleep, relaunchLog,
                   gaveUp, restartFailed, signalled, enteredMonitor, exitCode,
                   scriptMissing, teardown>>

\* the 1 s wait and the poll of the overlay; on success main enters its loop
StartCheckOverlay ==
    /\ UNCHANGED notSup
    /\ UNCHANGED <<popen, teardown>>
    /\ UNCHANGED scriptMissing
    /\ spc = "overlay_check"
    /\ lastSleep' = 1
    /\ IF Polled(handle["overlay"])
       THEN spc' = "start_failed" /\ UNCHANGED enteredMonitor
       ELSE spc' = "monitor" /\ enteredMonitor' = TRUE
    /\ UNCHANGED <<handle, running, restart_counts, rname, procs, relaunchLog,
                   gaveUp, restartFailed, signalled, exitCode>>

\* except Exception: cleanup, sys.exit(1); the SystemExit then reaches main's finally
StartFailed ==
    /\ UNCHANGED notSup
    /\ UNCHANGED popen
    /\ UNCHANGED scriptMissing
    /\ spc = "start_failed"
    /\ CleanupTo("finally", 1)
    /\ UNCHANGED <<handle, running, restart_counts, rname, lastSleep, relaunchLog,
                   gaveUp, restartFailed, signalled, enteredMonitor>>

(***************************************************************************)
(* _try_restart_process up to its sleep: the budget check and the count    *)
(***************************************************************************)
\* a budget check that is off by one
TryRestartBeginOffByOne(n) ==
    IF restart_counts[n] > MAX_RESTART_ATTEMPTS
    THEN /\ gaveUp' = [gaveUp EXCEPT ![n] = TRUE]
         /\ spc' = "finally"
         /\ UNCHANGED <<restart_counts, rname>>
    ELSE /\ restart_counts' = [restart_counts EXCEPT ![n] = @ + 1]
         /\ rname' = n
         /\ spc' = "restart_delay"
         /\ UNCHANGED gaveUp

TryRestartBegin(n) ==
    IF restart_counts[n] >= MAX_RESTART_ATTEMPTS
    THEN /\ gaveUp' = [gaveUp EXCEPT ![n] = TRUE]
         /\ spc' = "finally"
         /\ UNCHANGED <<restart_counts, rname>>
    ELSE /\ restart_counts' = [restart_counts EXCEPT ![n] = @ + 1]
         /\ rname' = n
         /\ spc' = "restart_delay"
         /\ UNCHANGED gaveUp

(***************************************************************************)
(* main's while loop: the check of one managed process                     *)
(***************************************************************************)
\* a check that restarts a managed process without polling it
MonitorCheckNoPoll(n, at, cont) ==
    /\ UNCHANGED notSup
    /\ UNCHANGED <<popen, teardown>>
    /\ UNCHANGED scriptMissing
    /\ spc = at
    /\ running
    /\ IF handle[n] # 0
       THEN TryRestartBegin(n)
       ELSE spc' = cont /\ UNCHANGED <<restart_counts, rname, gaveUp>>
    /\ UNCHANGED <<handle, running, procs, lastSleep, relaunchLog, restartFailed,
                   signalled, enteredMonitor, exitCode>>

MonitorCheck(n, at, cont) ==
    /\ UNCHANGED notSup
    /\ UNCHANGED <<popen, teardown>>
    /\ UNCHANGED scriptMissing
    /\ spc = at
    /\ running
    /\ IF handle[n] # 0 /\ Polled(handle[n])
       THEN TryRestartBegin(n)
       ELSE spc' = cont /\ UNCHANGED <<restart_counts, rname, gaveUp>>
    /\ UNCHANGED <<handle, running, procs, lastSleep, relaunchLog, restartFailed,
                   signalled, enteredMonitor, exitCode>>

MonitorServer == MonitorCheck("server", "monitor", "monitor_overlay")

MonitorOverlay == MonitorCheck("overlay", "monitor_overlay", "loop_sleep")

\* time.sleep(1) at the end of an iteration
LoopSleep ==
    /\ UNCHANGED notSup
    /\ UNCHANGED <<popen, teardown>>
    /\ UNCHANGED scriptMissing
    /\ spc = "loop_sleep"
    /\ lastSleep' = 1
    /\ spc' = "monitor"
    /\ UNCHANGED <<handle, running, restart_counts, rname, procs, relaunchLog,
                   gaveUp, restartFailed, signalled, enteredMonitor, exitCode>>

(***************************************************************************)
(* _try_restart_process after time.sleep(RESTART_DELAY): the relaunch      *)
(***************************************************************************)
\* main testing the result of _try_restart_process the wrong way round
TryRestartLaunchInverted ==
    /\ UNCHANGED notSup
    /\ UNCHANGED <<popen, teardown>>
    /\ spc = "restart_delay"
    /\ lastSleep' = RESTART_DELAY
    /\ \E exists \in BOOLEAN :
         /\ procs' = create_process(procs, rname, exists)
         /\ scriptMissing' = [scriptMissing EXCEPT ![rname] = @ \/ ~exists]
         /\ IF exists
            THEN /\ handle' = [handle EXCEPT ![rname] = Len(procs) + 1]
                 /\ relaunchLog' = [relaunchLog EXCEPT ![rname] = Append(@, lastSleep')]
                 /\ spc' = "finally"
                 /\ UNCHANGED restartFailed
            ELSE /\ restartFailed' = [restartFailed EXCEPT ![rname] = TRUE]
                 /\ spc' = "loop_sleep"
                 /\ UNCHANGED <<handle, relaunchLog>>
    /\ UNCHANGED <<running, restart_counts, rname, gaveUp, signalled,
                   enteredMonitor, exitCode>>

TryRestartLaunch ==
    /\ UNCHANGED notSup
    /\ UNCHANGED teardown
    /\ spc = "restart_delay"
    /\ lastSleep' = RESTART_DELAY
    /\ \E exists \in BOOLEAN :
         /\ procs' = create_process(procs, rname, exists)
         /\ scriptMissing' = [scriptMissing EXCEPT ![rname] = @ \/ ~exists]
         /\ IF exists
            THEN /\ popen' = Len(procs) + 1
                 /\ relaunchLog' = [relaunchLog EXCEPT ![rname] = Append(@, lastSleep')]
                 /\ spc' = "restart_store"
                 /\ UNCHANGED restartFailed
            ELSE /\ restartFailed' = [restartFailed EXCEPT ![rname] = TRUE]
                 /\ spc' = "finally"
                 /\ UNCHANGED <<popen, relaunchLog>>
    /\ UNCHANGED handle
    /\ UNCHANGED <<running, restart_counts, rname, gaveUp, signalled,
                   enteredMonitor, exitCode>>

\* time.sleep(STARTUP_WAIT) after the relaunch of the server, then return True
TryRestartWarmup ==
    /\ UNCHANGED notSup
    /\ UNCHANGED <<popen, teardown>>
    /\ UNCHANGED scriptMissing
    /\ spc = "restart_warmup"
    /\ lastSleep' = STARTUP_WAIT
    /\ spc' = "monitor_overlay"
    /\ UNCHANGED <<handle, running, restart_counts, rname, procs, relaunchLog,
                   gaveUp, restartFailed, signalled, enteredMonitor, exitCode>>

(***************************************************************************)
(* main's finally: cleanup, sys.exit(0)                                    *)
(***************************************************************************)
Finally ==
    /\ UNCHANGED notSup
    /\ UNCHANGED popen
    /\ UNCHANGED scriptMissing
    /\ spc = "finally"
    /\ CleanupTo("exited", 0)
    /\ UNCHANGED <<handle, running, restart_counts, rname, lastSleep, relaunchLog,
                   gaveUp, restartFailed, signalled, enteredMonitor>>

(***************************************************************************)
(* handle_signal: running = False, cleanup, sys.exit(0).  The SystemExit   *)
(* unwinds main's try into its finally; raised inside the finally it ends  *)
(* the program.                                                            *)
(***************************************************************************)
handle_signal ==
    /\ UNCHANGED notSup
    /\ popen' = 0
    /\ UNCHANGED scriptMissing
    /\ spc # "exited"
    /\ signalled' = TRUE
    /\ running' = FALSE
    /\ CleanupTo(IF spc = "finally" THEN "exited" ELSE "finally", 0)
    /\ UNCHANGED <<handle, restart_counts, rname, lastSleep, relaunchLog, gaveUp,
                   restartFailed, enteredMonitor>>

(***************************************************************************)
(* The environment: a managed process exits by itself, or spawns a child.  *)
(* The children of a process that exits by itself are reparented: they     *)
(* leave the tree psutil lists for the handle and are followed no further. *)
(***************************************************************************)
ProcExit ==
    /\ UNCHANGED notSup
    /\ UNCHANGED <<popen, teardown>>
    /\ UNCHANGED scriptMissing
    /\ spc # "exited"
    /\ \E pid \in 1..Len(procs) :
         /\ procs[pid].status = "running"
         /\ procs' = [procs EXCEPT ![pid].status = "exited", ![pid].kids = 0]
    /\ UNCHANGED <<spc, handle, running, restart_counts, rname, lastSleep,
                   relaunchLog, gaveUp, restartFailed, signalled, enteredMonitor,
                   exitCode>>

SpawnKid ==
    /\ UNCHANGED notSup
    /\ UNCHANGED <<popen, teardown>>
    /\ UNCHANGED scriptMissing
    /\ spc # "exited"
    /\ \E pid \in 1..Len(procs) :
         /\ procs[pid].status = "running"
         /\ procs[pid].kids < NumKids
         /\ procs' = [procs EXCEPT ![pid].kids = @ + 1]
    /\ UNCHANGED <<spc, handle, running, restart_counts, rname, lastSleep,
                   relaunchLog, gaveUp, restartFailed, signalled, enteredMonitor,
                   exitCode>>

SupNext ==
    \/ StartServer
    \/ StartOverlay
    \/ StoreHandle
    \/ StartCheckOverlay
    \/ StartFailed
    \/ MonitorServer
    \/ MonitorOverlay
    \/ LoopSleep
    \/ TryRestartLaunch
    \/ TryRestartWarmup
    \/ Finally
    \/ handle_signal
    \/ ProcExit
    \/ SpawnKid


(***************************************************************************)
(*                 WebSocketClient (server/overlay.py)                     *)
(***************************************************************************)
max_reconnect_delay == 30

Min(a, b) == IF a <= b THEN a ELSE b

RECURSIVE Pow2(_)
Pow2(k) == IF k = 0 THEN 1 ELSE 2 * Pow2(k - 1)

\* the texts the callback is given, by kind
MsgKinds == {"ai_response", "error", "pong", "undecodable", "nonobject"}

CliInit ==
    /\ cpc = "init"
    /\ loop = FALSE
    /\ ws = 0
    /\ connected = FALSE
    /\ should_reconnect = TRUE
    /\ reconnect_delay = 1
    /\ attempts = 0
    /\ openConn = 0
    /\ closeTask = 0
    /\ sendTasks = {}
    /\ issued = <<>>
    /\ transmitted = {}
    /\ fails = 0
    /\ cb = "Waiting..."
    /\ message = "none"

\* the event loop runs scheduled coroutines while listen is suspended in an await
LoopRuns == cpc \in {"connecting", "recv", "sleep_closed", "sleep_error"}

\* start / _run: the thread creates the loop and runs listen
Run ==
    /\ UNCHANGED notCli
    /\ UNCHANGED message
    /\ cpc = "init"
    /\ loop' = TRUE
    /\ cpc' = "check"
    /\ UNCHANGED <<ws, connected, should_reconnect, reconnect_delay, attempts,
                   openConn, closeTask, sendTasks, issued, transmitted, fails, cb>>

\* a loop that goes round whatever should_reconnect says
LoopCheckAlways ==
    /\ UNCHANGED notCli
    /\ UNCHANGED message
    /\ cpc = "check"
    /\ attempts < MaxAttempts
    /\ attempts' = attempts + 1
    /\ cpc' = "connecting"
    /\ UNCHANGED <<loop, ws, connected, should_reconnect, reconnect_delay,
                   openConn, closeTask, sendTasks, issued, transmitted, fails, cb>>

\* while self.should_reconnect: ... websockets.connect(...)
LoopCheck ==
    /\ UNCHANGED notCli
    /\ UNCHANGED message
    /\ cpc = "check"
    /\ IF should_reconnect
       THEN /\ attempts < MaxAttempts
            /\ attempts' = attempts + 1
            /\ cpc' = "connecting"
       ELSE /\ cpc' = "done"
            /\ UNCHANGED attempts
    /\ UNCHANGED <<loop, ws, connected, should_reconnect, reconnect_delay,
                   openConn, closeTask, sendTasks, issued, transmitted, fails, cb>>

\* the connect succeeds: lines 170-174
ConnectOk ==
    /\ UNCHANGED notCli
    /\ UNCHANGED message
    /\ cpc = "connecting"
    /\ ws' = attempts
    /\ openConn' = attempts
    /\ connected' = TRUE
    /\ reconnect_delay' = 1
    /\ fails' = 0
    /\ cb' = "Successfully connected to server"
    /\ cpc' = "recv"
    /\ UNCHANGED <<loop, should_reconnect, attempts, closeTask, sendTasks, issued,
                   transmitted>>

\* except (websockets.ConnectionClosed, ConnectionRefusedError): up to the sleep
OnClosed ==
    IF ~should_reconnect
    THEN /\ cpc' = "done"
         /\ message' = "none"
         /\ UNCHANGED <<connected, ws, cb>>
    ELSE /\ connected' = FALSE
         /\ ws' = 0
         /\ cb' = "Connection lost. Retrying"
         /\ message' = "none"
         /\ cpc' = "sleep_closed"

\* a listen without the second handler: the error leaves the loop
OnErrorEscapes ==
    /\ cpc' = "done"
    /\ message' = "none"
    /\ UNCHANGED <<connected, ws, cb>>

\* except Exception: up to the sleep
OnError ==
    IF ~should_reconnect
    THEN /\ cpc' = "done"
         /\ message' = "none"
         /\ UNCHANGED <<connected, ws, cb>>
    ELSE /\ connected' = FALSE
         /\ ws' = 0
         /\ cb' = "Connection error"
         /\ message' = "none"
         /\ cpc' = "sleep_error"

\* the connect is refused
ConnectRefused ==
    /\ UNCHANGED notCli
    /\ cpc = "connecting"
    /\ OnClosed
    /\ UNCHANGED <<loop, should_reconnect, reconnect_delay, attempts, openConn,
                   closeTask, sendTasks, issued, transmitted, fails>>

\* the connect fails with any other error (a timeout, a bad handshake, ...)
ConnectError ==
    /\ UNCHANGED notCli
    /\ cpc = "connecting"
    /\ OnError
    /\ UNCHANGED <<loop, should_reconnect, reconnect_delay, attempts, openConn,
                   closeTask, sendTasks, issued, transmitted, fails>>

\* an inner loop with an else branch that reports every other type
DeliverElse(kind, old) ==
    CASE kind = "ai_response" -> "answer"
      [] kind = "error"       -> "Server error"
      [] kind = "nonobject"   -> "Error processing message"
      [] OTHER                -> "Received invalid message format"

\* the text the inner loop hands to the callback for a received message
Deliver(kind, old) ==
    CASE kind = "ai_response" -> "answer"
      [] kind = "error"       -> "Server error"
      [] kind = "undecodable" -> "Received invalid message format"
      [] kind = "nonobject"   -> "Error processing message"
      [] OTHER                -> old

\* ws.recv() returns a message: lines 178-196
RecvMessage ==
    /\ UNCHANGED notCli
    /\ cpc = "recv"
    /\ openConn = ws
    /\ \E kind \in MsgKinds : message' = kind /\ cb' = Deliver(kind, cb)
    /\ UNCHANGED <<cpc, loop, ws, connected, should_reconnect, reconnect_delay,
                   attempts, openConn, closeTask, sendTasks, issued, transmitted,
                   fails>>

\* ws.recv() raises ConnectionClosed: lines 187-190, then the outer handler
RecvClosed ==
    /\ UNCHANGED notCli
    /\ cpc = "recv"
    /\ openConn # ws
    /\ OnClosed
    /\ UNCHANGED <<loop, should_reconnect, reconnect_delay, attempts, openConn,
                   closeTask, sendTasks, issued, transmitted, fails>>

\* asyncio.sleep returns in the first handler: the delay doubles, capped
SleepClosedDone ==
    /\ UNCHANGED notCli
    /\ UNCHANGED message
    /\ cpc = "sleep_closed"
    /\ reconnect_delay' = Min(reconnect_delay * 2, max_reconnect_delay)
    /\ fails' = fails + 1
    /\ cpc' = "check"
    /\ UNCHANGED <<loop, ws, connected, should_reconnect, attempts, openConn,
                   closeTask, sendTasks, issued, transmitted, cb>>

\* asyncio.sleep returns in the second handler: the delay is left as it is
SleepErrorDone ==
    /\ UNCHANGED notCli
    /\ UNCHANGED message
    /\ cpc = "sleep_error"
    /\ fails' = fails + 1
    /\ cpc' = "check"
    /\ UNCHANGED <<loop, ws, connected, should_reconnect, reconnect_delay, attempts,
                   openConn, closeTask, sendTasks, issued, transmitted, cb>>

\* stop(), called from another thread
stop ==
    /\ UNCHANGED notCli
    /\ UNCHANGED message
    /\ should_reconnect
    /\ should_reconnect' = FALSE
    /\ closeTask' = IF ws # 0 THEN ws ELSE closeTask
    /\ UNCHANGED <<cpc, loop, ws, connected, reconnect_delay, attempts, openConn,
                   sendTasks, issued, transmitted, fails, cb>>

\* the loop runs the scheduled ws.close()
RunClose ==
    /\ UNCHANGED notCli
    /\ UNCHANGED message
    /\ LoopRuns
    /\ closeTask # 0
    /\ openConn' = IF openConn = closeTask THEN 0 ELSE openConn
    /\ closeTask' = 0
    /\ UNCHANGED <<cpc, loop, ws, connected, should_reconnect, reconnect_delay,
                   attempts, sendTasks, issued, transmitted, fails, cb>>

\* send_message / send_question, called from another thread
send_message ==
    /\ UNCHANGED notCli
    /\ UNCHANGED message
    /\ Len(issued) < MaxSends
    /\ issued' = Append(issued, [active |-> ws # 0 /\ openConn = ws,
                                 conn |-> ws, at |-> attempts])
    /\ sendTasks' = IF loop /\ ws # 0
                    THEN sendTasks \cup {[id |-> Len(issued) + 1, conn |-> ws]}
                    ELSE sendTasks
    /\ UNCHANGED <<cpc, loop, ws, connected, should_reconnect, reconnect_delay,
                   attempts, openConn, closeTask, transmitted, fails, cb>>

\* a send that goes out on whatever connection is open when it runs
RunSendOnCurrent(t) ==
    /\ LoopRuns
    /\ sendTasks' = sendTasks \ {t}
    /\ transmitted' = IF openConn # 0
                      THEN transmitted \cup {[id |-> t.id, on |-> openConn]}
                      ELSE transmitted

\* the loop runs a scheduled ws.send(...): it raises when its connection is closed
RunSend(t) ==
    /\ LoopRuns
    /\ sendTasks' = sendTasks \ {t}
    /\ transmitted' = IF openConn = t.conn
                      THEN transmitted \cup {[id |-> t.id, on |-> t.conn]}
                      ELSE transmitted

RunSendTask ==
    /\ UNCHANGED notCli
    /\ UNCHANGED message
    /\ \E t \in sendTasks : RunSend(t)
    /\ UNCHANGED <<cpc, loop, ws, connected, should_reconnect, reconnect_delay,
                   attempts, openConn, closeTask, issued, fails, cb>>

\* the environment: the server or the network closes the connection
RemoteClose ==
    /\ UNCHANGED notCli
    /\ UNCHANGED message
    /\ openConn # 0
    /\ cpc # "done"
    /\ openConn' = 0
    /\ UNCHANGED <<cpc, loop, ws, connected, should_reconnect, reconnect_delay,
                   attempts, closeTask, sendTasks, issued, transmitted, fails, cb>>

\* the steps the client's own thread and loop take once they can
CliProgress ==
    \/ Run
    \/ LoopCheck
    \/ ConnectOk \/ ConnectRefused \/ ConnectError
    \/ RecvClosed
    \/ SleepClosedDone
    \/ SleepErrorDone
    \/ RunClose
    \/ RunSendTask

CliNext ==
    \/ Run
    \/ LoopCheck
    \/ ConnectOk
    \/ ConnectRefused
    \/ ConnectError
    \/ RecvMessage
    \/ RecvClosed
    \/ SleepClosedDone
    \/ SleepErrorDone
    \/ stop
    \/ RunClose
    \/ send_message
    \/ RunSendTask
    \/ RemoteClose


(***************************************************************************)
(*                 WebSocketHandler (server/server.py)                     *)
(***************************************************************************)
Conns == {"A", "B"}

\* data.get('question', ''): the empty text stands for a missing question
Questions == {"", "2+2="}

\* what the inference collaborator can hand back: a text, or the text of its failure
Answers == {"4", "Analysis failed"}

\* An inbound message, by what json.loads and the dispatch make of it:
\*   badjson: json.loads raises JSONDecodeError;  nonobject: JSON that is no object;
\*   unknown: an object whose command is missing or not one of the four.
Messages ==
    [kind : {"badjson", "nonobject", "unknown", "ping", "screenshot", "ai_query_img"},
     q : {""}]
    \cup [kind : {"ai_query_noimg", "ai_query_text"}, q : Questions]

Envelope(type, text, c, i) == [type |-> type, text |-> text, src |-> c, req |-> i]

SrvInit ==
    /\ api_key \in BOOLEAN
    /\ st = [c \in Conns |-> "none"]
    /\ clients = {}
    /\ recvd = [c \in Conns |-> <<>>]
    /\ handled = [c \in Conns |-> 0]
    /\ out = [c \in Conns |-> <<>>]
    /\ busy = "none"
    /\ raised = [c \in Conns |-> FALSE]
    /\ peerClosed = [c \in Conns |-> FALSE]
    /\ inferred = [c \in Conns |-> <<>>]

TotalMsgs == Len(recvd["A"]) + Len(recvd["B"])

\* a send that goes to every registered client
SendToAll(o, c, e) == [d \in Conns |-> IF d \in clients THEN Append(o[d], e) ELSE o[d]]

\* websocket.send on the handler's own connection
Send(o, c, e) == [o EXCEPT ![c] = Append(@, e)]

\* a router that leaves malformed JSON unanswered, like an unknown command
ReplySilent(m, c, i, shot) ==
    CASE m.kind = "nonobject" -> <<Envelope("error", "Error processing message", c, i)>>
      [] m.kind = "ping" -> <<Envelope("pong", "", c, i)>>
      [] m.kind = "screenshot" ->
            IF shot THEN <<Envelope("screenshot", "", c, i)>>
            ELSE <<Envelope("error", "Screenshot failed", c, i)>>
      [] m.kind = "ai_query_noimg" -> <<Envelope("error", "No image provided", c, i)>>
      [] OTHER -> <<>>

\* a router with an else branch that rejects an unknown command
ReplyStrict(m, c, i, shot) ==
    CASE m.kind = "badjson" -> <<Envelope("error", "Invalid JSON format", c, i)>>
      [] m.kind = "nonobject" -> <<Envelope("error", "Error processing message", c, i)>>
      [] m.kind = "ping" -> <<Envelope("pong", "", c, i)>>
      [] m.kind = "screenshot" ->
            IF shot THEN <<Envelope("screenshot", "", c, i)>>
            ELSE <<Envelope("error", "Screenshot failed", c, i)>>
      [] m.kind = "ai_query_noimg" -> <<Envelope("error", "No image provided", c, i)>>
      [] m.kind = "unknown" -> <<Envelope("error", "Unknown command", c, i)>>
      [] OTHER -> <<>>

\* _process_message for the commands that call no inference: the envelope sent
\* for message i of connection c, if any; shot: the screen capture succeeded
Reply(m, c, i, shot) ==
    CASE m.kind = "badjson" -> <<Envelope("error", "Invalid JSON format", c, i)>>
      [] m.kind = "nonobject" -> <<Envelope("error", "Error processing message", c, i)>>
      [] m.kind = "ping" -> <<Envelope("pong", "", c, i)>>
      [] m.kind = "screenshot" ->
            IF shot THEN <<Envelope("screenshot", "", c, i)>>
            ELSE <<Envelope("error", "Screenshot failed", c, i)>>
      [] m.kind = "ai_query_noimg" -> <<Envelope("error", "No image provided", c, i)>>
      [] OTHER -> <<>>

\* await websocket.send(e) in the handler of c: on a closed connection it raises
\* ConnectionClosed, which ends handle_client through its finally
SendOrRaise(c, e) ==
    IF st[c] = "open"
    THEN /\ out' = Send(out, c, e)
         /\ UNCHANGED <<st, clients, raised>>
    ELSE /\ st' = [st EXCEPT ![c] = "done"]
         /\ clients' = clients \ {c}
         /\ raised' = [raised EXCEPT ![c] = TRUE]
         /\ UNCHANGED out

\* what analyze_text / analyze_screenshot return without an api key
NoKey == "Error: Gemini API key not configured"

\* an ai_query handler that analyses whether or not an image came with it
CallsInferenceAnyQuery(m) ==
    m.kind \in {"ai_query_text", "ai_query_img", "ai_query_noimg"} /\ api_key

\* the calls of generate_content: made only with an api key
CallsInference(m) == m.kind \in {"ai_query_text", "ai_query_img"} /\ api_key

\* a handler that answers with the question instead of the analysis
AnswerEnvelopeEcho(q, a, c, i) == Envelope("ai_response", q, c, i)

\* _handle_ai_query / _handle_ai_query_text: the envelope built from the analysis a
AnswerEnvelope(q, a, c, i) == Envelope("ai_response", a, c, i)

\* handle_client up to its loop: the connection is accepted and registered
Accept(c) ==
    /\ UNCHANGED notSrv
    /\ UNCHANGED inferred
    /\ busy = "none"
    /\ st[c] = "none"
    /\ st' = [st EXCEPT ![c] = "open"]
    /\ clients' = clients \cup {c}
    /\ UNCHANGED <<api_key, recvd, handled, out, busy, raised, peerClosed>>

\* the peer sends a message
PeerSend(c) ==
    /\ UNCHANGED notSrv
    /\ UNCHANGED inferred
    /\ st[c] = "open"
    /\ TotalMsgs < MaxMsgs
    /\ \E m \in Messages : recvd' = [recvd EXCEPT ![c] = Append(@, m)]
    /\ UNCHANGED <<api_key, st, clients, handled, out, busy, raised, peerClosed>>

\* the peer closes the connection
PeerClose(c) ==
    /\ UNCHANGED notSrv
    /\ UNCHANGED inferred
    /\ st[c] = "open"
    /\ st' = [st EXCEPT ![c] = "closed"]
    /\ peerClosed' = [peerClosed EXCEPT ![c] = TRUE]
    /\ UNCHANGED <<api_key, clients, recvd, handled, out, busy, raised>>

\* one turn of "async for message in websocket": _process_message on the next
\* message, up to its end or up to the call of generate_content; the event loop
\* runs one handler at a time
ProcessMessage(c) ==
    /\ UNCHANGED notSrv
    /\ busy = "none"
    /\ st[c] \in {"open", "closed"}
    /\ handled[c] < Len(recvd[c])
    /\ handled' = [handled EXCEPT ![c] = @ + 1]
    /\ LET i == handled[c] + 1
           m == recvd[c][i]
       IN  IF CallsInference(m)
           THEN /\ busy' = c
                /\ UNCHANGED <<st, clients, out, raised, inferred>>
           ELSE /\ UNCHANGED busy
                /\ IF m.kind \in {"ai_query_text", "ai_query_img"}
                   THEN /\ inferred' = [inferred EXCEPT ![c] =
                                          Append(@, [req |-> i, answer |-> NoKey])]
                        /\ SendOrRaise(c, Envelope("ai_response", NoKey, c, i))
                   ELSE /\ UNCHANGED inferred
                        /\ \E shot \in BOOLEAN :
                             IF Reply(m, c, i, shot) = <<>>
                             THEN UNCHANGED <<st, clients, out, raised>>
                             ELSE SendOrRaise(c, Reply(m, c, i, shot)[1])
    /\ UNCHANGED <<api_key, recvd, peerClosed>>

\* generate_content returns (or raises, which analyze_* turns into a text) and
\* the handler sends the ai_response
EndInference(c) ==
    /\ UNCHANGED notSrv
    /\ busy = c
    /\ busy' = "none"
    /\ \E a \in Answers :
         /\ inferred' = [inferred EXCEPT ![c] = Append(@, [req |-> handled[c], answer |-> a])]
         /\ SendOrRaise(c, AnswerEnvelope(recvd[c][handled[c]].q, a, c, handled[c]))
    /\ UNCHANGED <<api_key, recvd, handled, peerClosed>>

\* a handler without the finally: the connection stays in the registry
HandlerEndLeak(c) ==
    /\ UNCHANGED notSrv
    /\ UNCHANGED inferred
    /\ busy = "none"
    /\ st[c] = "closed"
    /\ handled[c] = Len(recvd[c])
    /\ st' = [st EXCEPT ![c] = "done"]
    /\ UNCHANGED <<api_key, clients, recvd, handled, out, busy, raised, peerClosed>>

\* the iteration over a closed connection ends; finally: clients.remove
HandlerEnd(c) ==
    /\ UNCHANGED notSrv
    /\ UNCHANGED inferred
    /\ busy = "none"
    /\ st[c] = "closed"
    /\ handled[c] = Len(recvd[c])
    /\ st' = [st EXCEPT ![c] = "done"]
    /\ clients' = clients \ {c}
    /\ UNCHANGED <<api_key, recvd, handled, out, busy, raised, peerClosed>>

SrvNext ==
    \E c \in Conns :
        \/ Accept(c)
        \/ PeerSend(c)
        \/ PeerClose(c)
        \/ ProcessMessage(c)
        \/ EndInference(c)
        \/ HandlerEnd(c)

(***************************************************************************)
(*                          Specifications                                 *)
(***************************************************************************)
Init == SupInit /\ CliInit /\ SrvInit

SupSpec == Init /\ [][SupNext]_vars

ClientSpec == Init /\ [][CliNext]_vars

ServerSpec == Init /\ [][SrvNext]_vars

\* the client's thread and its event loop keep running: every step they can
\* take is eventually taken; stop, send_message and the peer are not obliged
FairClientSpec == ClientSpec /\ WF_vars(CliProgress)

(***************************************************************************)
(*                     Properties of the supervisor                        *)
(***************************************************************************)

\* C1: a managed process is relaunched at most MAX_RESTART_ATTEMPTS times, every
\* relaunch directly follows a sleep of RESTART_DELAY, and once the process is
\* given up on it has been relaunched exactly MAX_RESTART_ATTEMPTS times (so it
\* is never relaunched after that) and the monitor loop has been left.
C1_RestartBudget ==
    \A n \in Names :
        /\ Len(relaunchLog[n]) <= MAX_RESTART_ATTEMPTS
        /\ \A i \in 1..Len(relaunchLog[n]) : relaunchLog[n][i] = RESTART_DELAY
        /\ gaveUp[n] => /\ Len(relaunchLog[n]) = MAX_RESTART_ATTEMPTS
                        /\ restart_counts[n] = MAX_RESTART_ATTEMPTS
                        /\ spc \in {"finally", "exited"}

C1_Witness ==
    \E n \in Names :
        /\ gaveUp[n]
        /\ Len(relaunchLog[n]) = MAX_RESTART_ATTEMPTS
        /\ Polled(handle[n])

\* C4: a cleanup that terminates a running managed process with two live
\* descendants leaves none of the three alive.
C4_CleanupKillsTree ==
    [][\A n \in Names :
          (/\ handle[n] # 0
           /\ procs[handle[n]].status = "running"
           /\ procs[handle[n]].kids = 2
           /\ procs'[handle[n]].status = "terminated")
          => procs'[handle[n]].kids = 0]_vars

C2_BackoffDoubles ==
    reconnect_delay = Min(Pow2(fails), max_reconnect_delay)

\* C3: once stop() has been called the listen loop eventually exits, and no
\* connection attempt is started after the stop.
C3_StopEndsLoop ==
    /\ (~should_reconnect) ~> (cpc = "done")
    /\ [][(~should_reconnect) => attempts' = attempts]_vars

\* C10: an envelope is put on the wire only if a connection was active when its
\* send_message was called, and only on that connection; a send_message called
\* with self.ws unset leaves nothing behind to be sent later.
C10_DroppedWhenDisconnected ==
    /\ \A t \in transmitted :
          issued[t.id].active /\ issued[t.id].conn = t.on
    /\ \A t \in sendTasks :
          issued[t.id].conn = t.conn /\ t.conn # 0

\* two send_message calls met no active connection, one with self.ws unset and
\* one with self.ws still holding a connection that had closed; the client has
\* connected again since, every scheduled send has run, and neither is out
C10_Witness ==
    \E i \in DOMAIN issued, j \in DOMAIN issued :
        /\ ~issued[i].active /\ issued[i].conn = 0
        /\ ~issued[j].active /\ issued[j].conn # 0
        /\ cpc = "recv"
        /\ openConn = ws
        /\ ws > issued[i].at
        /\ ws > issued[j].at
        /\ sendTasks = {}
        /\ transmitted = {}

(***************************************************************************)
(*                  Properties of the WebSocketHandler                     *)
(***************************************************************************)
NextMsg(c) == recvd[c][handled[c] + 1]

RepliesTo(c, i) == {k \in 1..Len(out[c]) : out[c][k].req = i}

\* C5: while the handler of connection b is inside an outstanding inference
\* call, a ping that has arrived on another open connection a can be processed
\* (and answered) without waiting for the call to return.
C5_PingNotBlocked ==
    \A a \in Conns, b \in Conns :
        (/\ a # b
         /\ busy = b
         /\ st[a] = "open"
         /\ handled[a] < Len(recvd[a])
         /\ NextMsg(a).kind = "ping")
        => ENABLED ProcessMessage(a)

\* C6: every envelope sent on a connection answers a request of that same
\* connection: a pong answers one of its pings and nothing else does, an
\* ai_response answers one of its ai queries.
C6_NoCrossTalk ==
    \A c \in Conns : \A k \in 1..Len(out[c]) :
        LET e == out[c][k] IN
        /\ e.src = c
        /\ e.req \in 1..handled[c]
        /\ (e.type = "pong") <=> (recvd[c][e.req].kind = "ping")
        /\ recvd[c][e.req].kind = "ai_query_text" => e.type = "ai_response"
        /\ e.type = "ai_response" => recvd[c][e.req].kind \in {"ai_query_text", "ai_query_img"}

\* A's ping was answered while B's ai_query_text was in the works or done
C6_Witness ==
    /\ \E k \in 1..Len(out["A"]) : out["A"][k].type = "pong"
    /\ \E k \in 1..Len(out["B"]) :
          out["B"][k].type = "ai_response" /\ recvd["B"][out["B"][k].req].kind = "ai_query_text"
    /\ api_key
    /\ Len(out["A"]) = 1
    /\ Len(out["B"]) = 1

Backoff == {"sleep_closed", "sleep_error"}

\* C11: as long as stop() has not been called the listen loop does not end, and
\* after every connection loss or failed attempt, whichever handler took the
\* error, a new connection attempt is eventually made (or stop() is called).
C11_ReconnectsForever ==
    /\ [](should_reconnect => cpc # "done")
    /\ (cpc \in Backoff /\ attempts < MaxAttempts)
          ~> (cpc = "connecting" \/ ~should_reconnect)

C11_Witness ==
    /\ cpc = "connecting"
    /\ should_reconnect
    /\ fails >= 2
    /\ cb = "Connection error"

\* C12: when stop() is called during the backoff sleep, the loop ends once the
\* sleep is over, and no connection attempt is started on the way.
C12_StopDuringBackoff ==
    /\ (cpc \in Backoff /\ ~should_reconnect) ~> (cpc = "done")
    /\ [][(cpc \in Backoff \cup {"check"} /\ ~should_reconnect)
            => /\ attempts' = attempts
               /\ cpc' \in Backoff \cup {"check", "done"}]_vars

C12_Witness ==
    /\ cpc \in Backoff
    /\ ~should_reconnect
    /\ attempts >= 1
    /\ ws = 0

Settled(c, i) ==
    /\ i \in 1..handled[c]
    /\ ~(i = handled[c] /\ (busy = c \/ raised[c]))

Running(c) == st[c] \in {"open", "closed"}

\* C13: the registry holds exactly the connections whose handle_client is
\* running; a connection leaves it only when its handler ends, never comes back,
\* and what happens on other connections leaves its membership alone.
C13_RegistryMatchesHandlers ==
    /\ [](clients = {c \in Conns : Running(c)})
    /\ [][\A c \in Conns :
            /\ (c \in clients /\ c \notin clients') => st'[c] = "done"
            /\ st[c] = "done" => st'[c] = "done" /\ c \notin clients'
            /\ st'[c] = st[c] => (c \in clients' <=> c \in clients)]_vars

C13_Witness ==
    \E a \in Conns, b \in Conns :
        /\ st[a] = "done"
        /\ raised[a]
        /\ st[b] = "closed"
        /\ clients = {b}

\* C15 as stated: a message that parses as JSON and carries no recognized
\* command is answered with no envelope.
C15_NoCommandSilent ==
    \A c \in Conns : \A i \in 1..handled[c] :
        recvd[c][i].kind \in {"unknown", "nonobject"} => RepliesTo(c, i) = {}

\* C15: a message that parses as a JSON object without a recognized command is
\* answered with no envelope and does not end the handler; a message that parses
\* as JSON but is no object is answered with one error envelope "Error
\* processing message"; the server closes no connection by itself.
C15_UnknownCommandSilent ==
    \A c \in Conns :
        /\ st[c] = "done" => peerClosed[c]
        /\ \A i \in 1..handled[c] :
             /\ recvd[c][i].kind = "unknown"
                  => RepliesTo(c, i) = {} /\ ~(i = handled[c] /\ raised[c])
             /\ (recvd[c][i].kind = "nonobject" /\ Settled(c, i))
                  => /\ Cardinality(RepliesTo(c, i)) = 1
                     /\ \A k \in RepliesTo(c, i) :
                          out[c][k] = Envelope("error", "Error processing message", c, i)

C15_Witness ==
    \E c \in Conns :
        /\ st[c] = "open"
        /\ handled[c] = 2
        /\ recvd[c][1].kind = "unknown"
        /\ recvd[c][2].kind = "ping"
        /\ RepliesTo(c, 1) = {}
        /\ Cardinality(RepliesTo(c, 2)) = 1

\* C16: an ai_query without image_data, whatever its question, is answered with
\* exactly one error envelope "No image provided", and no analysis is asked for.
C16_NoImageProvided ==
    \A c \in Conns : \A i \in 1..handled[c] :
        recvd[c][i].kind = "ai_query_noimg"
          => /\ ~(busy = c /\ i = handled[c])
             /\ \A r \in 1..Len(inferred[c]) : inferred[c][r].req # i
             /\ Settled(c, i)
                  => /\ Cardinality(RepliesTo(c, i)) = 1
                     /\ \A k \in RepliesTo(c, i) :
                          out[c][k] = Envelope("error", "No image provided", c, i)

C16_Witness ==
    \E c \in Conns :
        /\ api_key
        /\ handled[c] >= 1
        /\ recvd[c][1] = [kind |-> "ai_query_noimg", q |-> "2+2="]
        /\ Len(out[c]) = 1
        /\ out[c][1].text = "No image provided"

\* C17: an ai_query_text is answered on its own connection with exactly one
\* ai_response envelope whose answer is the text analyze_text returned for it.
C17_TextQueryAnswer ==
    \A c \in Conns : \A i \in 1..handled[c] :
        (recvd[c][i].kind = "ai_query_text" /\ Settled(c, i))
          => /\ Cardinality({r \in 1..Len(inferred[c]) : inferred[c][r].req = i}) = 1
             /\ Cardinality(RepliesTo(c, i)) = 1
             /\ \A d \in Conns \ {c} : \A k \in 1..Len(out[d]) : out[d][k].src = d
             /\ \A k \in RepliesTo(c, i) : \A r \in 1..Len(inferred[c]) :
                  inferred[c][r].req = i
                    => out[c][k] = Envelope("ai_response", inferred[c][r].answer, c, i)

C17_Witness ==
    \E c \in Conns :
        /\ api_key
        /\ handled[c] >= 1
        /\ recvd[c][1] = [kind |-> "ai_query_text", q |-> "2+2="]
        /\ inferred[c] = <<[req |-> 1, answer |-> "4"]>>
        /\ Len(out[c]) = 1
        /\ out[c][1].text = "4"

(***************************************************************************)
(*                 Further properties of the supervisor                    *)
(***************************************************************************)
ProcsOf(n) == {pid \in 1..Len(procs) : procs[pid].name = n}

LiveOf(n) == {pid \in ProcsOf(n) : procs[pid].status = "running"}

\* C14: a managed process has at most one live OS process, and its handle is
\* replaced only when it is unset or its process has been found exited.
C14_OneLiveProcess ==
    /\ [](\A n \in Names : Cardinality(LiveOf(n)) <= 1)
    /\ [][\A n \in Names :
            handle'[n] # handle[n] => (handle[n] = 0 \/ Polled(handle[n]))]_vars

C14_Witness ==
    \E n \in Names :
        /\ Len(relaunchLog[n]) >= 1
        /\ Alive(handle[n])
        /\ Cardinality(ProcsOf(n)) >= 2

\* C18: a launch that finds no script at its path spawns no OS process and
\* sets no handle, at the initial start and at a restart; the name has no live
\* process after such a launch, and the supervisor is on its way out.
C18_MissingScriptSpawnsNothing ==
    /\ [][\A n \in Names :
            (scriptMissing'[n] /\ ~scriptMissing[n])
              => procs' = procs /\ handle' = handle /\ popen' = popen]_vars
    /\ [](\A n \in Names :
            scriptMissing[n]
              => /\ ~Alive(handle[n])
                 /\ LiveOf(n) = {}
                 /\ popen = 0
                 /\ spc \in {"start_failed", "finally", "exited"})

C18_Witness ==
    \E n \in Names :
        /\ scriptMissing[n]
        /\ restartFailed[n]
        /\ handle[n] # 0
        /\ Len(relaunchLog[n]) >= 1

\* C19: the overlay is launched only once the server has been launched; a
\* start that failed never enters the monitor loop, leaves no launched process
\* alive, and ends the supervisor with a failure status.
C19_StartFailureExitsNonZero ==
    /\ handle["overlay"] # 0 => handle["server"] # 0
    /\ spc = "start_failed" => ~enteredMonitor
    /\ (spc = "exited" /\ ~enteredMonitor /\ ~signalled)
         => /\ \A n \in Names : ~Alive(handle[n])
            /\ exitCode # 0

(***************************************************************************)
(*               Sends on a connection that has closed                     *)
(***************************************************************************)
\* C21: a send on a connection that has already closed is a no-op: nothing is
\* raised out of _process_message, so no handler is ever ended by a send.
C21_SendOnClosedNoOp ==
    \A c \in Conns : ~raised[c]

(***************************************************************************)
(*                     The process tree after cleanup                      *)
(***************************************************************************)
\* C22: a managed process that cleanup has torn down has no live descendant
\* left: whatever survived the polite terminate has been force-killed.
C22_SurvivorsForceKilled ==
    \A pid \in 1..Len(procs) :
        procs[pid].status = "terminated" => procs[pid].kids = 0

(***************************************************************************)
(*                      cleanup over both processes                        *)
(***************************************************************************)
\* C23: a cleanup goes through the teardown of every managed process that has
\* a handle, however the teardown of the other one went (the process gone, a
\* timeout of the polite terminate, a forced kill that outlasts its wait):
\* both are dealt with in the same cleanup, none that has a handle is skipped,
\* and none is left running.
C23_CleanupExhaustive ==
    /\ teardown["server"] = "unset" <=> teardown["overlay"] = "unset"
    /\ \A n \in Names :
         /\ teardown[n] = "skipped" => handle[n] = 0
         /\ teardown[n] \notin {"unset", "skipped"} => ~Alive(handle[n])
         /\ (spc = "exited" /\ handle[n] # 0) => teardown[n] \notin {"unset", "skipped"}

C23_Witness ==
    /\ teardown["server"] = "kill_timeout"
    /\ teardown["overlay"] = "terminated"
    /\ procs[handle["overlay"]].status = "terminated"

(***************************************************************************)
(*                  A signal while a launch is in flight                   *)
(***************************************************************************)
\* C24: when a signal has been handled, at whatever point, no process the
\* supervisor spawned is still running once the supervisor has exited.
C24_SignalReachesEverySpawned ==
    (signalled /\ spc = "exited")
      => \A pid \in 1..Len(procs) : procs[pid].status # "running"

=============================================================================
